---- MODULE Spec2Model ----
(***************************************************************************)
(* The two conversion servers of the repository: src/server.js (execSync,  *)
(* blocking) and src/index.js (fluent-ffmpeg, event driven).  Each is an   *)
(* Express program with one route, POST /api/convert-m3u8.  A behaviour    *)
(* runs one of the two programs (variant); the external ffmpeg process,    *)
(* the file system, the wall clock and the clients are the environment.    *)
(***************************************************************************)
EXTENDS Integers, Sequences, FiniteSets, TLC

\* ------------------------------------------------------------------ bounds
\* number of requests a behaviour sends
MaxReq == 2
\* number of clock milliseconds a behaviour spans
MaxClock == 1

Req == 1..MaxReq

VARIABLES
    variant,       \* which program runs: "server.js" or "index.js"
    now,           \* Date.now()
    pc,            \* per request: where its route handler is
    m3u8Url,       \* req.body.url of the request taken up last
    outputFileName,\* per request: the handler's outputFileName (NoName before)
    responseSent,  \* per request: index.js's flag
    res,           \* per request: the responses sent on res, in order
    proc,          \* per request: its ffmpeg process
    opened,        \* per request: the process has created its output file
    lastEvent,     \* per request: the terminal event its command emitted last
    files          \* the output paths at which a file exists

vars == <<variant, now, pc, m3u8Url, outputFileName, responseSent, res, proc, opened,
          lastEvent, files>>

\* ------------------------------------------------------- request bodies
\* A JavaScript value of req.body.url: its typeof, and its characters (a
\* string) or its number.
Undefined == [type |-> "undefined", chars |-> <<>>, num |-> 0]
Str(s) == [type |-> "string", chars |-> s, num |-> 0]
Num(n) == [type |-> "number", chars |-> <<>>, num |-> n]

HttpUrl == Str(<<"h","t","t","p",":","/","/","h">>)
HttpsUrl == Str(<<"h","t","t","p","s",":","/","/","h">>)
HttpxUrl == Str(<<"h","t","t","p","x",":","/","/","h">>)
HttpDash == Str(<<"h","t","t","p","-","n">>)
FtpUrl == Str(<<"f","t","p",":","/","/","h">>)
Relative == Str(<<"/","a">>)
Empty == Str(<<>>)

\* the request bodies the clients send
Inputs == <<HttpUrl, HttpsUrl, HttpxUrl, HttpDash, Undefined, Empty, Num(42),
            Relative, FtpUrl>>

\* String.prototype.startsWith
StartsWith(s, p) == Len(s) >= Len(p) /\ SubSeq(s, 1, Len(p)) = p

\* !v : undefined, "" and 0 are falsy
Falsy(v) ==
    \/ v.type = "undefined"
    \/ v.type = "string" /\ v.chars = <<>>
    \/ v.type = "number" /\ v.num = 0

\* the condition of the handlers' validation `if`
Invalid(v) ==
    \/ Falsy(v)
    \/ v.type # "string"
    \/ ~StartsWith(v.chars, <<"h","t","t","p">>)

\* ------------------------------------------------------------ file names
NoName == <<>>
Null == <<>>

\* `converted_${Date.now()}.mp4`
FileNameAt(t) == <<"converted_", t, ".mp4">>
\* publicDownloadsDir (server.js), outputDir (index.js)
outputDir == IF variant = "server.js" THEN "public/downloads" ELSE "/tmp"
\* path.join(outputDir, outputFileName)
outputPath(r) == <<outputDir, outputFileName[r]>>
\* `/downloads/${outputFileName}`
publicDownloadUrl(r) == <<"/downloads/", outputFileName[r]>>

\* -------------------------------------------------------------- responses
BadRequest == [status |-> 400, success |-> FALSE, downloadUrl |-> Null]
ServerError == [status |-> 500, success |-> FALSE, downloadUrl |-> Null]
Success(ref) == [status |-> 200, success |-> TRUE, downloadUrl |-> ref]

Exited == {"exit0", "exitN", "signal"}

Init ==
    /\ variant \in {"server.js", "index.js"}
    /\ now = 0
    /\ pc = [r \in Req |-> "idle"]
    /\ m3u8Url = Undefined
    /\ outputFileName = [r \in Req |-> NoName]
    /\ responseSent = [r \in Req |-> FALSE]
    /\ res = [r \in Req |-> <<>>]
    /\ proc = [r \in Req |-> "none"]
    /\ opened = [r \in Req |-> FALSE]
    /\ lastEvent = [r \in Req |-> "none"]
    /\ files = {}

\* ------------------------------------------------------------ environment
\* the wall clock advances
Tick ==
    /\ now < MaxClock
    /\ now' = now + 1
    /\ UNCHANGED <<variant, pc, m3u8Url, outputFileName, responseSent, res, proc,
                   opened, lastEvent, files>>

\* requests are numbered in the order the server takes them up
NextRequest(r) == pc[r] = "idle" /\ \A q \in Req : q < r => pc[q] # "idle"

\* the single JavaScript thread is free to run a handler
CanAccept == \A r \in Req : pc[r] # "execSync"

\* ffmpeg -y opens (creates or truncates) its output file
ProcOpen(r) ==
    /\ proc[r] = "running"
    /\ ~opened[r]
    /\ opened' = [opened EXCEPT ![r] = TRUE]
    /\ files' = files \cup {outputPath(r)}
    /\ UNCHANGED <<variant, now, pc, m3u8Url, outputFileName, responseSent, res, proc,
                   lastEvent>>

\* ffmpeg exits: code 0 after it wrote its output, a non-zero code (also when
\* it could not be started), or killed by a signal
ProcExit(r, how) ==
    /\ proc[r] = "running"
    /\ how = "exit0" => opened[r]
    /\ proc' = [proc EXCEPT ![r] = how]
    /\ UNCHANGED <<variant, now, pc, m3u8Url, outputFileName, responseSent, res,
                   opened, lastEvent, files>>

\* --------------------------------------------------- both route handlers
\* Reject with the validation moved below the generation of the file name
Reject_AfterNaming(r, u) ==
    /\ pc' = [pc EXCEPT ![r] = "rejected"]
    /\ m3u8Url' = u
    /\ outputFileName' = [outputFileName EXCEPT ![r] = FileNameAt(now)]
    /\ res' = [res EXCEPT ![r] = Append(@, BadRequest)]
    /\ UNCHANGED <<variant, now, responseSent, proc, opened, lastEvent, files>>

\* the validation branch: res.status(400).json(...) and return
Reject(r, u) ==
    /\ pc' = [pc EXCEPT ![r] = "rejected"]
    /\ m3u8Url' = u
    /\ res' = [res EXCEPT ![r] = Append(@, BadRequest)]
    /\ UNCHANGED <<variant, now, outputFileName, responseSent, proc, opened,
                   lastEvent, files>>

\* try { if (fs.existsSync(p)) fs.unlinkSync(p) } catch (e) { log }:
\* unlinkSync removes the file or throws, and the throw is swallowed
Cleanup(p) ==
    IF p \in files
    THEN \E unlinked \in BOOLEAN :
            files' = IF unlinked THEN files \ {p} ELSE files
    ELSE files' = files

\* ------------------------------------------------------------- server.js
\* res.headersSent
headersSent(r) == res[r] # <<>>

\* the handler up to the call of execSync, which starts ffmpeg and blocks
ServerJsPost(r, u) ==
    /\ variant = "server.js"
    /\ NextRequest(r)
    /\ CanAccept
    /\ IF Invalid(u)
       THEN Reject(r, u)
       ELSE /\ m3u8Url' = u
            /\ outputFileName' = [outputFileName EXCEPT ![r] = FileNameAt(now)]
            /\ proc' = [proc EXCEPT ![r] = "running"]
            /\ pc' = [pc EXCEPT ![r] = "execSync"]
            /\ UNCHANGED <<variant, now, responseSent, res, opened, lastEvent,
                           files>>

\* ServerJsExecSyncReturn with the exit status ignored: always the success path
ServerJsExecSyncReturn_IgnoreThrow(r) ==
    /\ variant = "server.js"
    /\ pc[r] = "execSync"
    /\ proc[r] \in Exited
    /\ pc' = [pc EXCEPT ![r] = "returned"]
    /\ res' = [res EXCEPT ![r] = Append(@, Success(publicDownloadUrl(r)))]
    /\ UNCHANGED <<variant, now, m3u8Url, outputFileName, responseSent, proc,
                   opened, lastEvent, files>>

\* execSync returns (exit code 0) or throws (anything else), and the handler
\* runs to its end
ServerJsExecSyncReturn(r) ==
    /\ variant = "server.js"
    /\ pc[r] = "execSync"
    /\ proc[r] \in Exited
    /\ pc' = [pc EXCEPT ![r] = "returned"]
    /\ IF proc[r] = "exit0"
       THEN /\ res' = [res EXCEPT ![r] =
                          Append(@, Success(publicDownloadUrl(r)))]
            /\ files' = files
       ELSE /\ Cleanup(outputPath(r))
            /\ res' = [res EXCEPT ![r] =
                          IF headersSent(r) THEN @ ELSE Append(@, ServerError)]
    /\ UNCHANGED <<variant, now, m3u8Url, outputFileName, responseSent, proc, opened,
                   lastEvent>>

\* -------------------------------------------------------------- index.js
\* the 'error' listener
OnError(r) ==
    IF responseSent[r]
    THEN UNCHANGED <<responseSent, res, files>>
    ELSE /\ responseSent' = [responseSent EXCEPT ![r] = TRUE]
         /\ Cleanup(outputPath(r))
         /\ res' = [res EXCEPT ![r] = Append(@, ServerError)]

\* OnEnd without the test of responseSent
OnEnd_NoFlag(r) ==
    /\ responseSent' = [responseSent EXCEPT ![r] = TRUE]
    /\ res' = [res EXCEPT ![r] = Append(@, Success(Null))]
    /\ files' = files

\* the 'end' listener
OnEnd(r) ==
    IF responseSent[r]
    THEN UNCHANGED <<responseSent, res, files>>
    ELSE /\ responseSent' = [responseSent EXCEPT ![r] = TRUE]
         /\ res' = [res EXCEPT ![r] = Append(@, Success(Null))]
         /\ files' = files

\* the handler: validation, then the command is built and saved; building it
\* may throw, which the catch answers
IndexJsPost(r, u) ==
    /\ variant = "index.js"
    /\ NextRequest(r)
    /\ CanAccept
    /\ IF Invalid(u)
       THEN Reject(r, u)
       ELSE /\ m3u8Url' = u
            /\ outputFileName' = [outputFileName EXCEPT ![r] = FileNameAt(now)]
            /\ pc' = [pc EXCEPT ![r] = "returned"]
            /\ \E throws \in BOOLEAN :
                 IF throws
                 THEN /\ responseSent' = [responseSent EXCEPT ![r] = TRUE]
                      /\ res' = [res EXCEPT ![r] =
                            IF responseSent[r] THEN @ ELSE Append(@, ServerError)]
                      /\ proc' = proc
                 ELSE /\ proc' = [proc EXCEPT ![r] = "running"]
                      /\ UNCHANGED <<responseSent, res>>
            /\ UNCHANGED <<variant, now, opened, lastEvent, files>>

\* the command reports the exit of its process: 'end' after exit code 0,
\* 'error' otherwise
CommandClose(r) ==
    /\ variant = "index.js"
    /\ proc[r] \in Exited
    /\ lastEvent[r] = "none"
    /\ IF proc[r] = "exit0"
       THEN lastEvent' = [lastEvent EXCEPT ![r] = "end"] /\ OnEnd(r)
       ELSE lastEvent' = [lastEvent EXCEPT ![r] = "error"] /\ OnError(r)
    /\ UNCHANGED <<variant, now, pc, m3u8Url, outputFileName, proc, opened>>

\* { timeout: 432000 }: the command's timer expires while the process has not
\* exited; in that one callback the command emits 'error' and kills the
\* process
CommandTimeout(r) ==
    /\ variant = "index.js"
    /\ proc[r] = "running"
    /\ lastEvent[r] = "none"
    /\ lastEvent' = [lastEvent EXCEPT ![r] = "error"]
    /\ OnError(r)
    /\ proc' = [proc EXCEPT ![r] = "signal"]
    /\ UNCHANGED <<variant, now, pc, m3u8Url, outputFileName, opened>>

\* the catch has answered: the chain threw, and no process was started
SetupFailed(r) == pc[r] = "returned" /\ proc[r] = "none"

\* the listeners are registered with .on, so every further 'error' or 'end'
\* the command emits runs them again, also after the catch has answered
CommandEmitAgain(r, ev) ==
    /\ variant = "index.js"
    /\ lastEvent[r] # "none" \/ SetupFailed(r)
    /\ lastEvent' = [lastEvent EXCEPT ![r] = ev]
    /\ IF ev = "end" THEN OnEnd(r) ELSE OnError(r)
    /\ UNCHANGED <<variant, now, pc, m3u8Url, outputFileName, proc, opened>>

\* ------------------------------------------------------- the state machine
Next ==
    \/ Tick
    \/ \E r \in Req, i \in DOMAIN Inputs : ServerJsPost(r, Inputs[i])
    \/ \E r \in Req, i \in DOMAIN Inputs : IndexJsPost(r, Inputs[i])
    \/ \E r \in Req : ProcOpen(r)
    \/ \E r \in Req, how \in Exited : ProcExit(r, how)
    \/ \E r \in Req : ServerJsExecSyncReturn(r)
    \/ \E r \in Req : CommandClose(r)
    \/ \E r \in Req : CommandTimeout(r)
    \/ \E r \in Req, ev \in {"error", "end"} : CommandEmitAgain(r, ev)

Spec == Init /\ [][Next]_vars

\* the callbacks of the programs run whenever they can; the process and the
\* clients are not obliged to do anything
LiveSpec ==
    /\ Spec
    /\ \A r \in Req : WF_vars(ServerJsExecSyncReturn(r))
    /\ \A r \in Req : WF_vars(CommandClose(r))
    /\ \A r \in Req : WF_vars(CommandTimeout(r))

\* ------------------------------------------------------------ vocabulary
\* the request passed validation
Accepted(r) == pc[r] \in {"execSync", "returned"}
Answered(r) == res[r] # <<>>
Failed(r) == \E i \in 1..Len(res[r]) : res[r][i].status = 500
Succeeded(r) == \E i \in 1..Len(res[r]) : res[r][i].success
Running == {r \in Req : proc[r] = "running"}
\* the request the server took up last, whose body m3u8Url holds
Latest(r) == pc[r] # "idle" /\ \A q \in Req : q > r => pc[q] = "idle"

\* a well-formed absolute URL with scheme http or https: the scheme, "://",
\* and a non-empty rest
WellFormedHttpUrl(v) ==
    /\ v.type = "string"
    /\ \E scheme \in {<<"h","t","t","p",":","/","/">>,
                      <<"h","t","t","p","s",":","/","/">>} :
          StartsWith(v.chars, scheme) /\ Len(v.chars) > Len(scheme)

\* --------------------------------------------------------------- claims
\* C1: while a conversion process is running, its handler has returned and
\* the server is able to take up another request (both variants).
C1_NonBlocking ==
    \A r \in Req : proc[r] = "running" => (pc[r] = "returned" /\ CanAccept)

\* C2: a request gets at most one response, and once it has one no later
\* 'error' or 'end' event or exception changes it.
C2_OutcomeFinal ==
    [][\A r \in Req : /\ Len(res'[r]) <= 1
                      /\ (res[r] # <<>> => res'[r] = res[r])]_vars

\* C2 witness: a request answered with success whose command emitted 'error'
\* afterwards.
C2_Witness ==
    \E r \in Req : res[r] = <<Success(Null)>> /\ lastEvent[r] = "error"

\* C3: for a limit N below the number of requests, at most N conversion
\* processes run at the same time.
C3_ConcurrencyLimit ==
    \A N \in 1..(MaxReq - 1) : Cardinality(Running) <= N

\* C4: the step that takes up a request whose URL fails validation answers
\* 400 and changes nothing else: no file name, no process, no file.
C4_RejectNoEffect ==
    [][\A r \in Req :
          (pc[r] = "idle" /\ pc'[r] # "idle" /\ Invalid(m3u8Url')) =>
             /\ pc'[r] = "rejected"
             /\ res'[r] = <<BadRequest>>
             /\ \A q \in Req \ {r} : pc'[q] = pc[q] /\ res'[q] = res[q]
             /\ UNCHANGED <<outputFileName, responseSent, proc, opened,
                            lastEvent, files>>]_vars

\* C4 witness: a rejected request, answered 400.
C4_Witness ==
    \E r \in Req : pc[r] = "rejected" /\ res[r] = <<BadRequest>>

\* C5: a request is accepted exactly when its URL is a well-formed absolute
\* http or https URL.
C5_ValidationPredicate ==
    \A r \in Req : Latest(r) => (Accepted(r) <=> WellFormedHttpUrl(m3u8Url))

\* no other request was given the file name of r
OwnPath(r) == \A q \in Req \ {r} : outputFileName[q] # outputFileName[r]

\* C6: once a conversion's failure is reported, no file exists at its
\* outputPath.  Stated for the conversions whose outputPath is theirs alone,
\* where only the conversion itself and its handler touch the file.
C6_CleanupOnFailure ==
    \A r \in Req :
        (Accepted(r) /\ Failed(r) /\ OwnPath(r)) => outputPath(r) \notin files

\* C7: no two accepted requests have the same outputPath.
C7_UniqueOutputPath ==
    \A r1, r2 \in Req :
        (r1 # r2 /\ Accepted(r1) /\ Accepted(r2)) => outputPath(r1) # outputPath(r2)

\* C8: the step that reports a success reports a non-null download reference,
\* and the file exists at outputPath.
C8_SuccessExposesArtifact ==
    [][\A r \in Req :
          (res[r] = <<>> /\ res'[r] # <<>> /\ res'[r][1].success) =>
             /\ res'[r][1].downloadUrl # Null
             /\ outputPath(r) \in files']_vars

\* C9: every accepted request is eventually answered, also when its process
\* never exits on its own.
C9_BoundedCompletion ==
    \A r \in Req : Accepted(r) ~> Answered(r)

====
